---------------------------- MODULE Spec2Model ----------------------------
(***************************************************************************)
(* InstapaperGDocs: the two command line tools                             *)
(*   instapaper-gdocs.py          (reorganize mode)                        *)
(*   instapaper-gdoc-download.py  (download mode)                          *)
(* modelled as one state machine over the bookmark service, the document   *)
(* service and the local disk.  A run is one invocation of main().         *)
(*                                                                         *)
(* Strings that the code takes apart or compares character by character    *)
(* (urls, folder names, modified dates) are sequences: urls and names are  *)
(* sequences of path tokens with "/" a token of its own, dates are         *)
(* sequences of code points.  Python's None is the value None where the    *)
(* code only tests it for truth.                                           *)
(***************************************************************************)
EXTENDS Integers, Sequences, FiniteSets, TLC

VARIABLES
    folders,          \* bookmark service: the account's folder listing
    store,            \* bookmark service: the stored bookmarks, [folder_id, item]
    next_id,          \* bookmark service: the id the next created folder gets
    disk,             \* local disk: the files under save_folder
    pc,               \* where main() is
    mode,             \* which tool runs: "reorganize" | "download"
    folder_name,      \* args.folder_name / args.folder
    target,           \* args.target (<<>> when not given)
    new_folder_name,  \* main: new_folder_name
    bookmarks,        \* main: bookmarks
    docs_info,        \* main: docs_info
    new_folder_id,    \* main: new_folder_id
    k,                \* main: position of the running for loop
    error,            \* the uncaught exception that ended the run, or "none"
    calls,            \* the requests and file operations this run has issued
    run_no,           \* how many times the command has been started
    prev              \* the previous run of the same command: how it ended

vars == <<folders, store, next_id, disk, pc, mode, folder_name, target,
          new_folder_name, bookmarks, docs_info, new_folder_id, k, error,
          calls, run_no, prev>>

-----------------------------------------------------------------------------
(* Bounds of the model *)

MaxBookmarks == 3
MaxRerunBookmarks == 2
MaxRuns == 2

(* Program constants *)

DatePrefixLen == 10
PageLimit == 500

-----------------------------------------------------------------------------
(* Python values *)

None == -1

\* `not x` for an id that is None or an integer
Falsy_never(x) == FALSE

Falsy(x) == x = None \/ x = 0

\* dict.get(key, default)
Get(d, key, default) == IF key \in DOMAIN d THEN d[key] ELSE default

\* s[:n]
Take(s, n) == SubSeq(s, 1, IF Len(s) < n THEN Len(s) ELSE n)

\* `sub in s` for strings
IsSubstr(sub, s) ==
    \E j \in 0..(Len(s) - Len(sub)) : SubSeq(s, j + 1, j + Len(sub)) = sub

\* Positions at which sep starts in s
Occurrences(sep, s) ==
    {j \in 1..(Len(s) - Len(sep) + 1) : SubSeq(s, j, j + Len(sep) - 1) = sep}

SetMin(S) == CHOOSE x \in S : \A y \in S : x <= y

\* a < b for strings: code point by code point, a proper prefix is smaller
RECURSIVE StrLess(_, _)
StrLess(a, b) ==
    IF b = <<>> THEN FALSE
    ELSE IF a = <<>> THEN TRUE
    ELSE IF Head(a) # Head(b) THEN Head(a) < Head(b)
    ELSE StrLess(Tail(a), Tail(b))

-----------------------------------------------------------------------------
(* The urls, documents and folders of the modelled world *)

SLASH == "/"
GDOC_MARK == <<"docs.google.com", SLASH, "document">>
D_SEP == <<SLASH, "d", SLASH>>

DocUrl(id) == <<"https:", SLASH, SLASH>> \o GDOC_MARK \o D_SEP \o <<id, SLASH, "edit">>
UrlHome  == <<"https:", SLASH, SLASH>> \o GDOC_MARK \o <<SLASH, "u", SLASH, "0">>
UrlSheet == <<"https:", SLASH, SLASH, "docs.google.com", SLASH, "spreadsheets">>
                \o D_SEP \o <<"S", SLASH, "document">>

\* "Unknown", the default of a missing modifiedTime, as code points
UNKNOWN_DATE == <<85, 110, 107, 110, 111, 119, 110>>

\* What the document service holds: fields=name, owners(displayName), modifiedTime
DriveFiles ==
    [A |-> [name |-> "Alpha", owners |-> <<[displayName |-> "Ann"]>>, modifiedTime |-> <<49>>],
     B |-> [name |-> "Beta",  owners |-> <<[displayName |-> "Bob"]>>, modifiedTime |-> <<49>>],
     C |-> [name |-> "Gamma", owners |-> <<[displayName |-> "Cy"]>>,  modifiedTime |-> <<49, 49>>],
     D |-> [name |-> "Delta"]]

Bookmark(url, title) == [type |-> "bookmark", url |-> url, title |-> title]

\* The bookmarks a user may have saved into the source folder
UserBookmarks ==
    {Bookmark(DocUrl("A"), "a"), Bookmark(DocUrl("B"), "b"),
     Bookmark(DocUrl("C"), "c"), Bookmark(DocUrl("D"), "d"),
     Bookmark(UrlHome, "home"), Bookmark(UrlSheet, "sheet")}

\* The entries without a url that head every bookmarks/list response
ListHeader == <<[type |-> "meta"], [type |-> "user", username |-> "u"]>>

READING == <<"Reading">>
SORTED == <<"Sorted">>
FRESH == <<"Fresh">>
MISSING == <<"Missing">>
Suffixes == {"ab12"}

SeqsUpTo(S, n) == UNION {[1..m -> S] : m \in 0..n}
Injective(s) == \A p, q \in DOMAIN s : p # q => s[p] # s[q]

-----------------------------------------------------------------------------
(* The functions of the two tools *)

\* doc_url.split('/d/')[1].split('/')[0]: the text after the first '/d/' up
\* to the next '/'; IndexError when the url holds no '/d/'
ExtractDocId(doc_url) ==
    LET occ == Occurrences(D_SEP, doc_url) IN
    IF occ = {} THEN [tag |-> "IndexError"]
    ELSE LET rest == SubSeq(doc_url, SetMin(occ) + Len(D_SEP), Len(doc_url))
             cut == {j \in 1..Len(rest) : rest[j] = SLASH}
         IN [tag |-> "ok",
             id |-> IF cut = {} THEN rest ELSE SubSeq(rest, 1, SetMin(cut) - 1)]

\* files().get(fileId=doc_id, ...).execute(): the file's metadata, or an
\* HttpError when the request fails or the id names no file
DriveGet(doc_id, reply) ==
    IF reply = "ok" /\ Len(doc_id) = 1 /\ doc_id[1] \in DOMAIN DriveFiles
    THEN [tag |-> "ok", file |-> DriveFiles[doc_id[1]]]
    ELSE [tag |-> "HttpError"]

\* fetch_google_doc_info: the IndexError of the id extraction escapes, every
\* exception of the request and of the field extraction yields None
fetch_google_doc_info(doc_url, reply) ==
    LET ext == ExtractDocId(doc_url) IN
    IF ext.tag = "IndexError" THEN [tag |-> "IndexError"]
    ELSE LET got == DriveGet(ext.id, reply) IN
         IF got.tag # "ok" THEN [tag |-> "None"]
         ELSE LET file_metadata == got.file
                  owners == Get(file_metadata, "owners", << <<>> >>)
              IN IF owners = <<>> THEN [tag |-> "None"]
                 ELSE [tag |-> "dict",
                       title |-> Get(file_metadata, "name", "None"),
                       owner |-> Get(owners[1], "displayName", "Unknown"),
                       modified_date |-> Get(file_metadata, "modifiedTime", UNKNOWN_DATE)]

\* get_instapaper_folder_id, the scan of a 200 response: the folder_id of the
\* first entry of type "folder" whose title equals folder_name, else None
RECURSIVE ScanFolders_substring(_, _)
ScanFolders_substring(listing, name) ==
    IF listing = <<>> THEN None
    ELSE IF Head(listing).type = "folder" /\ IsSubstr(name, Head(listing).title)
         THEN Head(listing).folder_id
         ELSE ScanFolders_substring(Tail(listing), name)

RECURSIVE ScanFolders_last(_, _)
ScanFolders_last(listing, name) ==
    IF listing = <<>> THEN None
    ELSE LET later == ScanFolders_last(Tail(listing), name) IN
         IF later # None THEN later
         ELSE IF Head(listing).type = "folder" /\ Head(listing).title = name
              THEN Head(listing).folder_id
              ELSE None

RECURSIVE ScanFolders(_, _)
ScanFolders(listing, name) ==
    IF listing = <<>> THEN None
    ELSE IF Head(listing).type = "folder" /\ Head(listing).title = name
         THEN Head(listing).folder_id
         ELSE ScanFolders(Tail(listing), name)

\* get_instapaper_bookmarks, the filter of a 200 response
KeepItem_anyType(item) == IsSubstr(GDOC_MARK, Get(item, "url", <<>>))

KeepItem(item) ==
    Get(item, "type", "None") = "bookmark" /\ IsSubstr(GDOC_MARK, Get(item, "url", <<>>))

FilterGoogleDocs(response_data) == SelectSeq(response_data, KeepItem)

\* generate_unique_folder_name
generate_unique_folder_name(base_name, unique_suffix) == base_name \o <<"-", unique_suffix>>

\* docs_info.sort(key=lambda x: x['modified_date']): a stable sort, an entry
\* goes behind every entry whose key is not greater than its own
RECURSIVE InsertByDate_beforeEqual(_, _)
InsertByDate_beforeEqual(sorted, doc) ==
    IF sorted = <<>> THEN <<doc>>
    ELSE IF ~StrLess(Head(sorted).modified_date, doc.modified_date)
         THEN <<doc>> \o sorted
         ELSE <<Head(sorted)>> \o InsertByDate_beforeEqual(Tail(sorted), doc)

RECURSIVE InsertByDate(_, _)
InsertByDate(sorted, doc) ==
    IF sorted = <<>> THEN <<doc>>
    ELSE IF StrLess(doc.modified_date, Head(sorted).modified_date)
         THEN <<doc>> \o sorted
         ELSE <<Head(sorted)>> \o InsertByDate(Tail(sorted), doc)

RECURSIVE SortByModifiedDate(_)
SortByModifiedDate(docs) ==
    IF docs = <<>> THEN <<>>
    ELSE InsertByDate(SortByModifiedDate(SubSeq(docs, 1, Len(docs) - 1)), docs[Len(docs)])

\* main, step 7: the title and the description of the new bookmark
NewTitle(doc) == <<doc.title, " - ", doc.owner, " - ", Take(doc.modified_date, DatePrefixLen)>>
NewDescription(doc) ==
    <<doc.title, " - ", doc.owner, "<br>", Take(doc.modified_date, DatePrefixLen),
      "<br>", doc.url, "<br>">>

\* The bookmarks/list response for a folder: the header entries, then the
\* folder's bookmarks
ListResponse(fid) ==
    LET InFolder(b) == b.folder_id = fid
        hits == SelectSeq(store, InFolder)
        page == Take(hits, PageLimit)
    IN ListHeader \o [j \in 1..Len(page) |-> page[j].item]

\* download_gdoc: every exception is caught.  The file exists once open()
\* has succeeded, whatever the export does after it
download_gdoc(doc_url, title, reply) ==
    LET ext == ExtractDocId(doc_url)
        output_file_path == <<title, ".docx">>
    IN IF ext.tag = "IndexError"
       THEN [result |-> "IndexError", opened |-> FALSE, path |-> output_file_path]
       ELSE IF reply = "open_error"
       THEN [result |-> "OSError", opened |-> FALSE, path |-> output_file_path]
       ELSE IF reply = "export_error" \/ ~(Len(ext.id) = 1 /\ ext.id[1] \in DOMAIN DriveFiles)
       THEN [result |-> "HttpError", opened |-> TRUE, path |-> output_file_path]
       ELSE [result |-> "ok", opened |-> TRUE, path |-> output_file_path]

\* save_instapaper_bookmark, after the request: raises on a non-200 response
save_instapaper_bookmark_swallows(status) == "return"

save_instapaper_bookmark(status) == IF status # 200 THEN "raise" ELSE "return"

-----------------------------------------------------------------------------
(* The state machine *)

HttpStatus == {200, 500}

Folder(title, id) == [type |-> "folder", title |-> title, folder_id |-> id]

InitialFolders == <<Folder(READING, 1), Folder(SORTED, 2), Folder(SORTED, 3)>>

\* main() stands at p, run as tool m on the folder fname, nothing fetched yet
ProgramAt(p, m, fname) ==
    /\ disk = {}
    /\ pc = p
    /\ mode = m
    /\ folder_name = fname
    /\ target = <<>>
    /\ new_folder_name = <<>>
    /\ bookmarks = <<>>
    /\ docs_info = <<>>
    /\ new_folder_id = None
    /\ k = 0
    /\ error = "none"
    /\ calls = <<>>
    /\ run_no = 0
    /\ prev = [pc |-> "none", writes |-> <<>>]

\* The items of a listing, stored in the folder fid
Stored(listing, fid) == [j \in 1..Len(listing) |-> [folder_id |-> fid, item |-> listing[j]]]

InitWith(n) ==
    /\ folders = InitialFolders
    /\ \E listing \in SeqsUpTo(UserBookmarks, n) :
          Injective(listing) /\ store = Stored(listing, 1)
    /\ next_id = 4
    /\ ProgramAt("idle", "none", <<>>)

Init == InitWith(MaxBookmarks)

IsWrite(c) == c.op \in {"folders/add", "bookmarks/add"}

Service == <<folders, store, next_id>>
Args == <<mode, folder_name, target>>
Locals == <<bookmarks, docs_info, new_folder_id>>

\* An uncaught exception ends main()
Abort(err) == pc' = "aborted" /\ error' = err

\* main, up to the first request: the arguments and new_folder_name
Begin(m, fname, tgt, suffix) ==
    /\ mode' = m
    /\ folder_name' = fname
    /\ target' = tgt
    /\ new_folder_name' = IF m # "reorganize" THEN <<>>
                          ELSE IF tgt # <<>> THEN tgt
                          ELSE generate_unique_folder_name(fname, suffix)
    /\ bookmarks' = <<>>
    /\ docs_info' = <<>>
    /\ new_folder_id' = None
    /\ k' = 0
    /\ error' = "none"
    /\ calls' = <<>>
    /\ run_no' = run_no + 1
    /\ pc' = "step1"

StartReorganize ==
    /\ pc = "idle"
    /\ \E fname \in {READING, MISSING}, tgt \in {<<>>, SORTED, FRESH, READING}, suffix \in Suffixes :
          Begin("reorganize", fname, tgt, suffix)
    /\ UNCHANGED <<Service, disk, prev>>

StartDownload ==
    /\ pc = "idle"
    /\ \E fname \in {READING, MISSING} : Begin("download", fname, <<>>, "")
    /\ UNCHANGED <<Service, disk, prev>>

\* The same command line is run again after the run before it has ended
Rerun ==
    /\ pc \in {"done", "aborted"}
    /\ run_no < MaxRuns
    /\ prev' = [pc |-> pc, writes |-> SelectSeq(calls, IsWrite)]
    /\ \E suffix \in Suffixes : Begin(mode, folder_name, target, suffix)
    /\ UNCHANGED <<Service, disk>>

\* Step 1: get_instapaper_access_token, authenticate_instapaper
Step1_InstapaperToken ==
    /\ pc = "step1"
    /\ \E status \in HttpStatus :
          /\ calls' = Append(calls, [op |-> "oauth/access_token", status |-> status])
          /\ IF status = 200
             THEN pc' = "step2" /\ error' = error
             ELSE Abort("Failed to get access token")
    /\ UNCHANGED <<Service, disk, Args, new_folder_name, Locals, k, run_no, prev>>

\* Step 2: the cached authorized user, or generate_google_authorized_user
Step2_GoogleCredentials ==
    /\ pc = "step2"
    /\ \E ok \in BOOLEAN :
          IF ok THEN pc' = "step3" /\ error' = error
          ELSE Abort("Google authentication failed")
    /\ UNCHANGED <<Service, disk, Args, new_folder_name, Locals, k, calls, run_no, prev>>

\* Where main goes once the bookmarks are listed: into the loop of step 4,
\* or past it when there is nothing to loop over
AfterListing_folderFirst(kept, m) ==
    IF m = "reorganize" THEN "step6" ELSE IF kept # <<>> THEN "step4" ELSE "done"

AfterListing(kept, m) ==
    IF kept # <<>> THEN "step4" ELSE IF m = "reorganize" THEN "step5" ELSE "done"

\* Step 3: get_instapaper_bookmarks(session, folder_name)
Step3_FetchBookmarks ==
    /\ pc = "step3"
    /\ \E s1, s2 \in HttpStatus :
        LET listed == Append(calls, [op |-> "folders/list", status |-> s1])
            folder_id == ScanFolders(folders, folder_name)
            asked == Append(listed, [op |-> "bookmarks/list", folder_id |-> folder_id,
                                     limit |-> PageLimit, status |-> s2])
            kept == FilterGoogleDocs(ListResponse(folder_id))
        IN IF s1 # 200
           THEN calls' = listed /\ Abort("Failed to fetch folders") /\ UNCHANGED <<bookmarks, k>>
           ELSE IF Falsy(folder_id)
           THEN calls' = listed /\ Abort("No such folder") /\ UNCHANGED <<bookmarks, k>>
           ELSE IF s2 # 200
           THEN calls' = asked /\ Abort("Failed to fetch bookmarks") /\ UNCHANGED <<bookmarks, k>>
           ELSE /\ calls' = asked
                /\ bookmarks' = kept
                /\ k' = 1
                /\ error' = error
                /\ pc' = AfterListing(kept, mode)
    /\ UNCHANGED <<Service, disk, Args, new_folder_name, docs_info, new_folder_id, run_no, prev>>

\* Step 4 of instapaper-gdocs.py: one pass of the loop over bookmarks
Step4_FetchDocInfo ==
    /\ pc = "step4" /\ mode = "reorganize"
    /\ \E reply \in {"ok", "error"} :
        LET bookmark == bookmarks[k]
            doc_info == fetch_google_doc_info(bookmark.url, reply)
            got == Append(calls, [op |-> "files.get", url |-> bookmark.url,
                                  ok |-> doc_info.tag = "dict"])
        IN IF doc_info.tag = "IndexError"
           THEN calls' = calls /\ Abort("IndexError") /\ UNCHANGED <<docs_info, k>>
           ELSE IF doc_info.tag = "None"
           THEN calls' = got /\ Abort("TypeError") /\ UNCHANGED <<docs_info, k>>
           ELSE /\ calls' = got
                /\ docs_info' = Append(docs_info,
                        [title |-> doc_info.title, owner |-> doc_info.owner,
                         modified_date |-> doc_info.modified_date, url |-> bookmark.url])
                /\ k' = k + 1
                /\ error' = error
                /\ pc' = IF k < Len(bookmarks) THEN "step4" ELSE "step5"
    /\ UNCHANGED <<Service, disk, Args, new_folder_name, bookmarks, new_folder_id, run_no, prev>>

\* Step 5: docs_info.sort
Step5_Sort ==
    /\ pc = "step5"
    /\ docs_info' = SortByModifiedDate(docs_info)
    /\ pc' = "step6"
    /\ UNCHANGED <<Service, disk, Args, new_folder_name, bookmarks, new_folder_id, k, error,
                   calls, run_no, prev>>

\* Step 6, the lookup: get_instapaper_folder_id(session, new_folder_name)
ResolveTarget_skipped(listing, name) == None

ResolveTarget(listing, name) == ScanFolders(listing, name)

\* Step 6: get_instapaper_folder_id, then create_instapaper_folder when the
\* name resolves to nothing
Step6_ResolveOrCreateFolder ==
    /\ pc = "step6"
    /\ \E s1, s2 \in HttpStatus :
        LET listed == Append(calls, [op |-> "folders/list", status |-> s1])
            found == ResolveTarget(folders, new_folder_name)
            added == Append(listed, [op |-> "folders/add", title |-> new_folder_name,
                                     status |-> s2])
            go == /\ k' = 1
                  /\ error' = error
                  /\ pc' = IF docs_info # <<>> THEN "step7" ELSE "done"
        IN IF s1 # 200
           THEN /\ calls' = listed /\ Abort("Failed to fetch folders")
                /\ UNCHANGED <<Service, new_folder_id, k>>
           ELSE IF ~Falsy(found)
           THEN /\ calls' = listed /\ new_folder_id' = found /\ go
                /\ UNCHANGED Service
           ELSE IF s2 # 200
           THEN /\ calls' = added /\ Abort("Failed to create folder")
                /\ UNCHANGED <<Service, new_folder_id, k>>
           ELSE /\ calls' = added
                /\ folders' = Append(folders, Folder(new_folder_name, next_id))
                /\ next_id' = next_id + 1
                /\ new_folder_id' = next_id
                /\ go
                /\ UNCHANGED store
    /\ UNCHANGED <<disk, Args, new_folder_name, bookmarks, docs_info, run_no, prev>>

\* Step 7: one pass of the loop over docs_info, save_instapaper_bookmark
Step7_SaveBookmark ==
    /\ pc = "step7"
    /\ \E status \in HttpStatus :
        LET doc == docs_info[k]
            data == [url |-> doc.url, title |-> NewTitle(doc),
                     description |-> NewDescription(doc), content |-> NewDescription(doc),
                     folder_id |-> new_folder_id]
        IN /\ calls' = Append(calls, [op |-> "bookmarks/add", data |-> data, status |-> status])
           /\ store' = IF status = 200
                       THEN Append(store,
                              [folder_id |-> new_folder_id,
                               item |-> [type |-> "bookmark", url |-> data.url,
                                         title |-> data.title,
                                         description |-> data.description]])
                       ELSE store
           /\ IF save_instapaper_bookmark(status) = "raise"
              THEN Abort("Failed to save bookmark") /\ k' = k
              ELSE /\ k' = k + 1
                   /\ error' = error
                   /\ pc' = IF k < Len(docs_info) THEN "step7" ELSE "done"
    /\ UNCHANGED <<folders, next_id, disk, Args, new_folder_name, Locals, run_no, prev>>

\* Step 4 of instapaper-gdoc-download.py: one pass of the loop over bookmarks
Step4_Download_raises ==
    /\ pc = "step4" /\ mode = "download"
    /\ \E reply \in {"ok", "open_error", "export_error"} :
        LET bookmark == bookmarks[k]
            r == download_gdoc(bookmark.url, bookmark.title, reply)
        IN /\ calls' = Append(calls, [op |-> "download_gdoc", url |-> bookmark.url,
                                      title |-> bookmark.title, result |-> r.result])
           /\ disk' = IF r.opened THEN disk \cup {r.path} ELSE disk
           /\ IF r.result # "ok"
              THEN Abort(r.result) /\ k' = k
              ELSE /\ k' = k + 1
                   /\ error' = error
                   /\ pc' = IF k < Len(bookmarks) THEN "step4" ELSE "done"
    /\ UNCHANGED <<Service, Args, new_folder_name, Locals, run_no, prev>>

Step4_Download ==
    /\ pc = "step4" /\ mode = "download"
    /\ \E reply \in {"ok", "open_error", "export_error"} :
        LET bookmark == bookmarks[k]
            r == download_gdoc(bookmark.url, bookmark.title, reply)
        IN /\ calls' = Append(calls, [op |-> "download_gdoc", url |-> bookmark.url,
                                      title |-> bookmark.title, result |-> r.result])
           /\ disk' = IF r.opened THEN disk \cup {r.path} ELSE disk
    /\ k' = k + 1
    /\ pc' = IF k < Len(bookmarks) THEN "step4" ELSE "done"
    /\ UNCHANGED <<Service, Args, new_folder_name, Locals, error, run_no, prev>>

Step ==
    \/ Step1_InstapaperToken
    \/ Step2_GoogleCredentials
    \/ Step3_FetchBookmarks
    \/ Step4_FetchDocInfo
    \/ Step5_Sort
    \/ Step6_ResolveOrCreateFolder
    \/ Step7_SaveBookmark
    \/ Step4_Download

Next == StartReorganize \/ StartDownload \/ Step

Spec == Init /\ [][Next]_vars

\* The same command run again: smaller source folders, up to MaxRuns runs
InitRerun == InitWith(MaxRerunBookmarks)
NextRerun == Next \/ Rerun
SpecRerun == InitRerun /\ [][NextRerun]_vars


-----------------------------------------------------------------------------
(* get_instapaper_folder_id on its own, over every small folder listing *)

MaxFolders == 3

NAME_A == <<"Notes">>
NAME_AB == <<"Notes", "2024">>
NAME_B == <<"2024">>

\* The kinds of entry a folder listing may hold; the service numbers them
ListingShapes == SeqsUpTo({"folder", "other"} \X {NAME_A, NAME_AB}, MaxFolders)

InitFolder ==
    /\ \E shape \in ListingShapes :
          /\ folders = [j \in 1..Len(shape) |->
                          [type |-> shape[j][1], title |-> shape[j][2], folder_id |-> j]]
          /\ next_id = Len(shape) + 1
    /\ store = <<>>
    /\ \E name \in {NAME_A, NAME_AB, NAME_B} : ProgramAt("call", "none", name)

\* get_instapaper_folder_id(session, folder_name), its result in new_folder_id
ResolveFolder ==
    /\ pc = "call"
    /\ \E status \in HttpStatus :
          /\ calls' = Append(calls, [op |-> "folders/list", status |-> status])
          /\ IF status = 200
             THEN /\ new_folder_id' = ScanFolders(folders, folder_name)
                  /\ pc' = "returned"
                  /\ error' = error
             ELSE Abort("Failed to fetch folders") /\ new_folder_id' = new_folder_id
    /\ UNCHANGED <<Service, disk, Args, new_folder_name, bookmarks, docs_info, k, run_no, prev>>

SpecFolder == InitFolder /\ [][ResolveFolder]_vars

-----------------------------------------------------------------------------
(* get_instapaper_bookmarks on its own, over every small bookmark listing *)

MaxResponse == 3

\* The kinds of entry a bookmarks/list response may hold
ResponseItems ==
    {Bookmark(DocUrl("A"), "a"), Bookmark(UrlHome, "home"), Bookmark(UrlSheet, "sheet"),
     [type |-> "bookmark", title |-> "bare"],
     [type |-> "folder", url |-> DocUrl("B"), title |-> "b"]}

InitFilter ==
    /\ folders = InitialFolders
    /\ \E listing \in SeqsUpTo(ResponseItems, MaxResponse) : store = Stored(listing, 1)
    /\ next_id = 4
    /\ \E m \in {"reorganize", "download"} : ProgramAt("step3", m, READING)

SpecFilter == InitFilter /\ [][Step3_FetchBookmarks]_vars

-----------------------------------------------------------------------------
(* State functions the properties are stated with *)

IsAdd(c) == c.op = "bookmarks/add"
IsCreate(c) == c.op = "folders/add"
IsFetch(c) == c.op = "files.get"
IsExport(c) == c.op = "download_gdoc"

Adds == SelectSeq(calls, IsAdd)
Creates == SelectSeq(calls, IsCreate)
Fetches == SelectSeq(calls, IsFetch)
Exports == SelectSeq(calls, IsExport)

\* The positions of a folder listing that carry the name as a folder's title
Matches(listing, name) ==
    {j \in DOMAIN listing : listing[j].type = "folder" /\ listing[j].title = name}

\* a <= b in the lexicographic order of strings
LexLeq(a, b) == a = b \/ StrLess(a, b)

\* Where the adapter's listing holds the url
PosOf(url) == CHOOSE p \in DOMAIN bookmarks : bookmarks[p].url = url

\* An entry the user saved, as opposed to one a run has added
Added(b) == "description" \in DOMAIN b.item

\* The bookmark service holds what it held before the run
Pristine ==
    /\ folders = InitialFolders
    /\ next_id = 4
    /\ \A j \in DOMAIN store : ~Added(store[j]) /\ store[j].folder_id = 1

-----------------------------------------------------------------------------
(* C1 *)

\* C1, as the specification states it: in reorganize mode a failed metadata fetch does not end
\* the run; the bookmark is dropped and the others are still added, so that
\* a finished run has added exactly the bookmarks whose fetch succeeded.
C1_FailedFetchIsDropped ==
    mode = "reorganize" =>
        /\ \A p \in DOMAIN calls :
              (IsFetch(calls[p]) /\ ~calls[p].ok) => ~(p = Len(calls) /\ pc = "aborted")
        /\ pc = "done" =>
              {Adds[p].data.url : p \in DOMAIN Adds}
                  = {Fetches[p].url : p \in {q \in DOMAIN Fetches : Fetches[q].ok}}

-----------------------------------------------------------------------------
(* C2 *)

\* C2: in download mode the export attempts follow the adapter's listing one
\* for one and in its order, whatever each attempt's outcome; no run ends
\* abnormally once the loop has begun, the loop stands at the bookmark after
\* the last attempt, and a finished run has attempted every bookmark once.
C2_OneExportPerBookmark ==
    mode = "download" =>
        /\ Len(Exports) <= Len(bookmarks)
        /\ \A p \in DOMAIN Exports :
              Exports[p].url = bookmarks[p].url /\ Exports[p].title = bookmarks[p].title
        /\ pc = "step4" => Len(Exports) = k - 1 /\ k <= Len(bookmarks)
        /\ pc = "done" => Len(Exports) = Len(bookmarks)
        /\ pc = "aborted" => Exports = <<>>
        /\ pc \in {"step4", "done"} => bookmarks = FilterGoogleDocs(ListResponse(1))

\* A finished download run of three bookmarks whose first two exports failed
C2_Witness ==
    /\ mode = "download" /\ pc = "done"
    /\ Len(Exports) = 3
    /\ Exports[1].result = "IndexError"
    /\ Exports[2].result = "HttpError"
    /\ Exports[3].result = "ok"

-----------------------------------------------------------------------------
(* C3 *)

\* C3: in reorganize mode the addBookmark calls go out one at a time in the
\* order of docs_info, and from the sort on docs_info is in ascending
\* lexicographic order of modified_date, entries of equal date in the order
\* in which the adapter listed them.
C3_AddsInStableDateOrder ==
    mode = "reorganize" =>
        /\ Len(Adds) <= Len(docs_info)
        /\ \A p \in DOMAIN Adds : Adds[p].data.url = docs_info[p].url
        /\ (pc \in {"step6", "step7", "done"} \/ Adds # <<>>) =>
              \A p, q \in DOMAIN docs_info :
                  p < q =>
                      /\ LexLeq(docs_info[p].modified_date, docs_info[q].modified_date)
                      /\ docs_info[p].modified_date = docs_info[q].modified_date
                            => PosOf(docs_info[p].url) < PosOf(docs_info[q].url)

\* Three documents were added: two of equal date, listed behind a later one,
\* and one whose date extends theirs
C3_Witness ==
    /\ mode = "reorganize" /\ pc = "done"
    /\ Len(Adds) = 3
    /\ docs_info[1].modified_date = docs_info[2].modified_date
    /\ docs_info[3].modified_date = docs_info[1].modified_date \o <<49>>
    /\ PosOf(docs_info[3].url) = 1

-----------------------------------------------------------------------------
(* C4 *)

\* C4: when the listing call succeeds get_instapaper_folder_id returns the
\* folder_id of the first entry, in listing order, that is of type "folder"
\* and whose title equals the name, and None when there is no such entry.
C4_FirstExactFolderMatch ==
    pc = "returned" =>
        IF Matches(folders, folder_name) = {}
        THEN new_folder_id = None
        ELSE new_folder_id = folders[SetMin(Matches(folders, folder_name))].folder_id

\* The second entry is returned: the first has the title but is no folder,
\* the third is a later folder of the same title
C4_Witness ==
    /\ pc = "returned" /\ new_folder_id = 2
    /\ Len(folders) = 3
    /\ folders[1].type = "other" /\ folders[1].title = folder_name
    /\ folders[3].type = "folder" /\ folders[3].title = folder_name

-----------------------------------------------------------------------------
(* C5 *)

\* An entry of a response qualifies: a bookmark with a url that holds the mark
Qualifies(item) ==
    /\ "type" \in DOMAIN item /\ item.type = "bookmark"
    /\ "url" \in DOMAIN item
    /\ \E j \in 1..Len(item.url) :
          j + 2 <= Len(item.url) /\ <<item.url[j], item.url[j + 1], item.url[j + 2]>> = GDOC_MARK

\* C5: after a successful bookmark list call the result holds exactly the
\* qualifying entries of the response, in the response's order.
C5_ExactlyTheGoogleDocBookmarks ==
    (pc \in {"step4", "step5", "done"}) =>
        LET response == ListResponse(1)
            Q == {j \in DOMAIN response : Qualifies(response[j])}
            Nth(p) == CHOOSE j \in Q : Cardinality({i \in Q : i <= j}) = p
        IN /\ Len(bookmarks) = Cardinality(Q)
           /\ \A p \in DOMAIN bookmarks : bookmarks[p] = response[Nth(p)]

\* Two qualifying bookmarks are kept around a dropped entry that is no
\* bookmark but has a Google Doc url
C5_Witness ==
    /\ pc = "step4"
    /\ Len(store) = 3 /\ Len(bookmarks) = 2
    /\ store[2].item.type = "folder" /\ Qualifies(Bookmark(store[2].item.url, "x"))
    /\ bookmarks[1] = store[1].item /\ bookmarks[2] = store[3].item
    /\ bookmarks[1] # bookmarks[2]

-----------------------------------------------------------------------------
(* C6 *)

\* C6: in both modes, when the source folder name is no folder's title, the
\* run issues nothing beyond authentication and the folder listing, and
\* never reaches the pipeline.
C6_UnresolvedSourceIsFatal ==
    (mode # "none" /\ Matches(folders, folder_name) = {}) =>
        /\ \A p \in DOMAIN calls : calls[p].op \in {"oauth/access_token", "folders/list"}
        /\ pc \in {"step1", "step2", "step3", "aborted"}
        /\ Pristine /\ disk = {}

\* A download run has ended on the missing source folder
C6_Witness ==
    /\ mode = "download" /\ pc = "aborted" /\ error = "No such folder"
    /\ store # <<>>
    /\ calls[Len(calls)] = [op |-> "folders/list", status |-> 200]

-----------------------------------------------------------------------------
(* C7 *)

\* C7: when reorganize mode has run to completion twice in a row with the
\* same source folder and the same explicit target, different from the
\* source, the later run issues the addBookmark calls of the earlier one
\* again, one per document and into the same folder, and creates no folder;
\* the earlier run created at most one.  After the second of two runs the
\* target folder holds two added bookmarks for every document.
C7_RerunAddsEveryDocumentAgain ==
    (/\ mode = "reorganize" /\ pc = "done" /\ prev.pc = "done"
     /\ target # <<>> /\ target # folder_name) =>
        LET before == SelectSeq(prev.writes, IsAdd)
            made == SelectSeq(prev.writes, IsCreate)
        IN /\ Adds = before
           /\ Len(Adds) = Len(bookmarks)
           /\ \A p \in DOMAIN Adds : Adds[p].status = 200
           /\ run_no = 2 =>
               \A b \in {bookmarks[p] : p \in DOMAIN bookmarks} :
                 Cardinality({j \in DOMAIN store :
                                 /\ Added(store[j])
                                 /\ store[j].item.url = b.url
                                 /\ store[j].folder_id = new_folder_id}) = 2
           /\ Creates = <<>>
           /\ Len(made) <= 1

\* The second run is done: the first created the target and added two
\* documents, the second found the target and added them again
C7_Witness ==
    /\ mode = "reorganize" /\ pc = "done" /\ prev.pc = "done"
    /\ target = FRESH
    /\ Len(SelectSeq(prev.writes, IsCreate)) = 1
    /\ Len(Adds) = 2
    /\ Len(SelectSeq(store, Added)) = 4

-----------------------------------------------------------------------------
(* C8 *)

\* C8: in reorganize mode createFolder is issued at most once, only for a
\* name that resolved to no folder and before any addBookmark; a run past
\* step 6 has issued it exactly when the name did not resolve; and every
\* addBookmark carries the id of the first folder of that name.
C8_FolderResolvedOrCreatedOnce ==
    mode = "reorganize" =>
        LET resolved == Matches(InitialFolders, new_folder_name) # {}
            now == Matches(folders, new_folder_name)
        IN /\ Len(Creates) <= 1
           /\ Creates # <<>> => ~resolved /\ Creates[1].title = new_folder_name
           /\ (pc \in {"step7", "done"} \/ Adds # <<>>) =>
                 /\ (Creates # <<>>) <=> ~resolved
                 /\ now # {}
                 /\ new_folder_id = folders[SetMin(now)].folder_id
                 /\ ~resolved => folders = Append(InitialFolders, Folder(new_folder_name, 4))
           /\ \A p \in DOMAIN Adds : Adds[p].data.folder_id = folders[SetMin(now)].folder_id
           /\ \A p, q \in DOMAIN calls : (IsAdd(calls[p]) /\ IsCreate(calls[q])) => q < p

\* Without --target the synthesized name resolved to nothing: the folder was
\* created and two bookmarks were added to it
C8_Witness ==
    /\ mode = "reorganize" /\ pc = "done" /\ target = <<>>
    /\ Len(Creates) = 1 /\ Creates[1].status = 200
    /\ Len(Adds) = 2
    /\ Adds[1].data.folder_id = 4

-----------------------------------------------------------------------------
(* C9 *)

\* C9: a failed addBookmark call is the last thing its run does: the run
\* has ended abnormally, the call was the one for the document at its place
\* in sorted order and was issued once, the calls before it succeeded and
\* their bookmarks are the last entries of the store, and nothing was added
\* for a later document.
C9_FailedAddEndsTheRun ==
    \A p \in DOMAIN calls :
        (IsAdd(calls[p]) /\ calls[p].status # 200) =>
            LET n == Len(Adds) IN
            /\ p = Len(calls) /\ pc = "aborted" /\ error = "Failed to save bookmark"
            /\ Adds[n] = calls[p]
            /\ n <= Len(docs_info)
            /\ \A q \in 1..n : Adds[q].data.url = docs_info[q].url
            /\ Len(SelectSeq(store, Added)) = n - 1
            /\ \A q \in 1..(n - 1) :
                  /\ Adds[q].status = 200
                  /\ store[Len(store) - (n - 1) + q].folder_id = new_folder_id
                  /\ store[Len(store) - (n - 1) + q].item.url = docs_info[q].url

\* The call for the second of three documents failed
C9_Witness ==
    /\ pc = "aborted" /\ error = "Failed to save bookmark"
    /\ Len(docs_info) = 3 /\ Len(Adds) = 2
    /\ Adds[1].status = 200 /\ Adds[2].status = 500
    /\ Len(SelectSeq(store, Added)) = 1

-----------------------------------------------------------------------------
(* C10 *)

\* The uncaught exceptions of the steps up to the metadata loop
MetadataPhaseErrors ==
    {"Failed to get access token", "Google authentication failed", "No such folder",
     "Failed to fetch bookmarks", "IndexError", "TypeError"}

\* C10: in reorganize mode no createFolder and no addBookmark is issued
\* before the metadata of every listed bookmark has been fetched; as long as
\* none has been issued the bookmark service holds what it held before the
\* run; and a run ended by an exception of the steps up to the metadata
\* loop has issued none.
C10_ReadsBeforeWrites ==
    mode = "reorganize" =>
        /\ SelectSeq(calls, IsWrite) # <<>> =>
              /\ Len(docs_info) = Len(bookmarks)
              /\ Len(Fetches) = Len(bookmarks)
              /\ \A p \in DOMAIN Fetches : Fetches[p].ok
        /\ SelectSeq(calls, IsWrite) = <<>> => Pristine
        /\ pc \in {"step1", "step2", "step3", "step4", "step5", "step6"} =>
              SelectSeq(calls, IsWrite) = <<>>
        /\ (pc = "aborted" /\ error \in MetadataPhaseErrors) =>
              SelectSeq(calls, IsWrite) = <<>>

\* The run ended in the metadata loop, after one fetch had succeeded
C10_Witness ==
    /\ mode = "reorganize" /\ pc = "aborted" /\ error = "TypeError"
    /\ Len(docs_info) = 1 /\ Len(bookmarks) = 3
    /\ Pristine

=============================================================================
